---- MODULE Spec2Model ----
(***************************************************************************)
(* Notification preferences of openedx.core.djangoapps.notifications:     *)
(* the catalog of notification apps and types, the default preference     *)
(* tree built from it, normalize / denormalize / update of a stored       *)
(* preference tree, and the rendering of a notification's content.        *)
(*                                                                         *)
(* Python values are encoded as follows.  True, False and None are the    *)
(* strings "True", "False" and "None"; a dict is a function whose domain  *)
(* is its key set (a missing key is a key outside the domain); a list is  *)
(* a sequence.  A dict is iterated in the order of KeyOrder, which agrees *)
(* with the declaration order of the catalog literals of the source.      *)
(* A call's outcome is a record [exception, returned].                    *)
(***************************************************************************)
EXTENDS Integers, Sequences, FiniteSets, TLC

VARIABLES
    COURSE_NOTIFICATION_TYPES,  \* the notification-type table
    COURSE_NOTIFICATION_APPS,   \* the notification-app table
    preferences,                \* the stored (existing) preference tree
    call,                       \* the operation that ran last, "" before any
    normalized_preferences,     \* what normalize_preferences returned last
    result,                     \* outcome of the last call
    notification_type,          \* arguments of get_notification_content
    context

vars == <<COURSE_NOTIFICATION_TYPES, COURSE_NOTIFICATION_APPS, preferences, call,
          normalized_preferences, result, notification_type, context>>

----------------------------------------------------------------------------
(* Python values *)

True == "True"
False == "False"
None == "None"

EmptyDict == [k \in {} |-> None]

HasKey(d, k) == k \in DOMAIN d

\* d.get(k, default)
Get(d, k, default) == IF k \in DOMAIN d THEN d[k] ELSE default

\* d[k] = v
SetItem(d, k, v) == (k :> v) @@ d

\* Iteration order of every dict of the model; it lists every key that the
\* dicts that are iterated (the tables, the trees, notification_types) hold.
KeyOrder ==
    << "discussion", "updates", "legacy",
       "new_comment_on_response", "new_comment", "new_response",
       "course_update", "removed_type", "old_type", "core" >>

\* list(d.keys())
Keys(d) == SelectSeq(KeyOrder, LAMBDA k : k \in DOMAIN d)

Returned(v) == [exception |-> None, returned |-> v]
Raised(e) == [exception |-> e, returned |-> EmptyDict]

----------------------------------------------------------------------------
(* The catalog.  A content_template is held in the form string.Formatter   *)
(* parses it into: a sequence of (literal_text, field_name) pairs, the     *)
(* field_name None after the last literal.                                 *)

Piece(literal_text, field_name) == [literal_text |-> literal_text, field_name |-> field_name]

DefaultNotificationTypes ==
    [ new_comment_on_response |->
        [ notification_app |-> "discussion",
          name |-> "new_comment_on_response",
          is_core |-> True,
          info |-> "Comment on response",
          content_template |->
              << Piece("<p><strong>", "replier_name"),
                 Piece("</strong> replied on your response in <strong>", "post_title"),
                 Piece("</strong></p>", None) >>,
          content_context |-> [post_title |-> "Post title", replier_name |-> "replier name"],
          email_template |-> "" ],
      new_comment |->
        ("non-editable" :> <<"web", "email">>) @@
        [ notification_app |-> "discussion",
          name |-> "new_comment",
          is_core |-> False,
          web |-> True,
          email |-> True,
          push |-> True,
          info |-> "Comment on post",
          content_template |->
              << Piece("<p><strong>", "replier_name"),
                 Piece("</strong> replied on <strong>", "author_name"),
                 Piece("</strong> response to your post <strong>", "post_title"),
                 Piece("</strong></p>", None) >>,
          content_context |-> [post_title |-> "Post title", author_name |-> "author name",
                               replier_name |-> "replier name"],
          email_template |-> "" ],
      new_response |->
        ("non-editable" :> <<>>) @@
        [ notification_app |-> "discussion",
          name |-> "new_response",
          is_core |-> False,
          web |-> True,
          email |-> True,
          push |-> True,
          info |-> "Response on post",
          content_template |->
              << Piece("<p><strong>", "replier_name"),
                 Piece("</strong> responded to your post <strong>", "post_title"),
                 Piece("</strong></p>", None) >>,
          content_context |-> [post_title |-> "Post title", replier_name |-> "replier name"],
          email_template |-> "" ] ]

DefaultNotificationApps ==
    [ discussion |->
        [ enabled |-> True,
          core_info |-> "",
          core_web |-> True,
          core_email |-> True,
          core_push |-> True ] ]


\* The catalog after a release: discussion is off by default and no longer
\* declares core_email; new_response has become a core type with an empty
\* content_template (the parse of ''); new_comment has another label, another
\* default for web and another locked channel; the app "updates" has arrived,
\* declaring no more than it must, with a type that has no content_template.
ChangedNotificationTypes ==
    [ new_comment_on_response |-> DefaultNotificationTypes["new_comment_on_response"],
      new_comment |->
        ("non-editable" :> <<"push">>) @@
        [ notification_app |-> "discussion",
          name |-> "new_comment",
          is_core |-> False,
          web |-> False,
          email |-> True,
          push |-> True,
          info |-> "Comment on your post",
          content_template |-> DefaultNotificationTypes["new_comment"]["content_template"],
          email_template |-> "" ],
      new_response |->
        [ notification_app |-> "discussion",
          name |-> "new_response",
          is_core |-> True,
          info |-> "Response on post",
          content_template |-> <<>>,
          email_template |-> "" ],
      course_update |->
        [ notification_app |-> "updates",
          name |-> "course_update",
          email |-> True ] ]

ChangedNotificationApps ==
    [ discussion |->
        [ enabled |-> False,
          core_info |-> "Core discussion notifications",
          core_web |-> True,
          core_push |-> False ],
      updates |-> [ core_web |-> True ] ]

\* The catalogs a run may start with: <<types, apps>>.
Catalogs ==
    { <<DefaultNotificationTypes, DefaultNotificationApps>>,
      <<DefaultNotificationTypes,
        [discussion |-> [DefaultNotificationApps["discussion"] EXCEPT !["enabled"] = False]]>>,
      <<ChangedNotificationTypes, ChangedNotificationApps>> }

----------------------------------------------------------------------------
(* NotificationTypeManager *)

\* Python truth of a scalar.
Truthy(v) == v \notin {None, False, ""}

get_notification_types_by_app(notification_app) ==
    LET keys == Keys(COURSE_NOTIFICATION_TYPES)
        mine == SelectSeq(keys, LAMBDA k :
                    Get(COURSE_NOTIFICATION_TYPES[k], "notification_app", None) = notification_app)
    IN  [i \in 1..Len(mine) |-> COURSE_NOTIFICATION_TYPES[mine[i]]]

\* <<core_notification_types, non_core_notification_types>>
get_core_and_non_core_notification_types(notification_app) ==
    LET notification_types == get_notification_types_by_app(notification_app)
    IN  << SelectSeq(notification_types, LAMBDA t : Truthy(Get(t, "is_core", None))),
           SelectSeq(notification_types, LAMBDA t : ~Truthy(Get(t, "is_core", None))) >>

\* The loop of get_non_editable_notification_channels over notification_types[1..n];
\* .get('non-editable', None) is falsy when the key is missing or the list is empty.
RECURSIVE NonEditableLoop(_, _)
NonEditableLoop(notification_types, n) ==
    IF n = 0 THEN EmptyDict
    ELSE LET t == notification_types[n]
             before == NonEditableLoop(notification_types, n - 1)
         IN  IF HasKey(t, "non-editable") /\ t["non-editable"] # <<>>
             THEN SetItem(before, Get(t, "name", None), t["non-editable"])
             ELSE before

get_non_editable_notification_channels(notification_types) ==
    NonEditableLoop(notification_types, Len(notification_types))

RECURSIVE NonCorePreferencesLoop(_, _)
NonCorePreferencesLoop(non_core_notification_types, n) ==
    IF n = 0 THEN EmptyDict
    ELSE LET t == non_core_notification_types[n]
         IN  SetItem(NonCorePreferencesLoop(non_core_notification_types, n - 1),
                     Get(t, "name", None),
                     [ web |-> Get(t, "web", False),
                       email |-> Get(t, "email", False),
                       push |-> Get(t, "push", False),
                       info |-> Get(t, "info", "") ])

get_non_core_notification_type_preferences(non_core_notification_types) ==
    NonCorePreferencesLoop(non_core_notification_types, Len(non_core_notification_types))

\* <<non_core_notification_types_preferences, core_notification_types_name,
\*   non_editable_notification_channels>>
get_notification_app_preference(notification_app) ==
    LET both == get_core_and_non_core_notification_types(notification_app)
        core_notification_types == both[1]
        non_core_notification_types == both[2]
    IN  << get_non_core_notification_type_preferences(non_core_notification_types),
           [i \in 1..Len(core_notification_types) |->
               Get(core_notification_types[i], "name", None)],
           get_non_editable_notification_channels(non_core_notification_types) >>

----------------------------------------------------------------------------
(* NotificationAppManager *)

\* notification_types after the call (the dict is updated in place).
add_core_notification_preference(notification_app_attrs, notification_types) ==
    SetItem(notification_types, "core",
            [ web |-> Get(notification_app_attrs, "core_web", False),
              email |-> Get(notification_app_attrs, "core_email", False),
              push |-> Get(notification_app_attrs, "core_push", False),
              info |-> Get(notification_app_attrs, "core_info", "") ])

get_notification_app_preferences ==
    [ notification_app_key \in DOMAIN COURSE_NOTIFICATION_APPS |->
        LET notification_app_attrs == COURSE_NOTIFICATION_APPS[notification_app_key]
            summary == get_notification_app_preference(notification_app_key)
        IN  [ enabled |-> Get(notification_app_attrs, "enabled", False),
              core_notification_types |-> summary[2],
              notification_types |->
                  add_core_notification_preference(notification_app_attrs, summary[1]),
              non_editable |-> summary[3] ] ]

----------------------------------------------------------------------------
(* .utils: find_app_in_normalized_apps and find_pref_in_normalized_prefs, *)
(* linear searches returning the first match, None without one.  A dict   *)
(* they return is never empty, hence truthy; Found says so.               *)

NotFound == [found |-> FALSE, item |-> EmptyDict]
Found(item) == [found |-> TRUE, item |-> item]

RECURSIVE FindAppFrom(_, _, _)
FindAppFrom(app_name, apps_list, i) ==
    IF i > Len(apps_list) THEN NotFound
    ELSE IF Get(apps_list[i], "name", None) = app_name THEN Found(apps_list[i])
    ELSE FindAppFrom(app_name, apps_list, i + 1)

find_app_in_normalized_apps(app_name, apps_list) == FindAppFrom(app_name, apps_list, 1)

RECURSIVE FindPrefFrom(_, _, _, _)
FindPrefFrom(pref_name, app_name, prefs_list, i) ==
    IF i > Len(prefs_list) THEN NotFound
    ELSE IF /\ Get(prefs_list[i], "name", None) = pref_name
            /\ Get(prefs_list[i], "app_name", None) = app_name
         THEN Found(prefs_list[i])
    ELSE FindPrefFrom(pref_name, app_name, prefs_list, i + 1)

find_pref_in_normalized_prefs(pref_name, app_name, prefs_list) ==
    FindPrefFrom(pref_name, app_name, prefs_list, 1)

----------------------------------------------------------------------------
(* NotificationPreferenceSyncManager *)

\* The entries prefs.append adds for one app: {'name', 'app_name', **pref_values},
\* the keys of pref_values winning where they clash.
AppPrefs(app, app_pref) ==
    LET notification_types == Get(app_pref, "notification_types", EmptyDict)
        names == Keys(notification_types)
    IN  [i \in 1..Len(names) |->
            notification_types[names[i]] @@ [name |-> names[i], app_name |-> app]]

RECURSIVE NormalizePrefsLoop(_, _, _)
NormalizePrefsLoop(prefs, apps, n) ==
    IF n = 0 THEN <<>>
    ELSE NormalizePrefsLoop(prefs, apps, n - 1) \o AppPrefs(apps[n], prefs[apps[n]])

normalize_preferences(prefs) ==
    LET app_keys == Keys(prefs)
    IN  [ apps |-> [i \in 1..Len(app_keys) |->
                      [ name |-> app_keys[i],
                        enabled |-> Get(prefs[app_keys[i]], "enabled", None) ]],
          preferences |-> NormalizePrefsLoop(prefs, app_keys, Len(app_keys)),
          non_editable |-> [app \in DOMAIN prefs |->
                              Get(prefs[app], "non_editable", EmptyDict)],
          core_notifications |-> [app \in DOMAIN prefs |->
                              Get(prefs[app], "core_notification_types", <<>>)] ]

\* First loop of denormalize_preferences, over normalized.apps[1..n].
RECURSIVE DenormalizeAppsLoop(_, _)
DenormalizeAppsLoop(normalized, n) ==
    IF n = 0 THEN EmptyDict
    ELSE LET app == Get(normalized, "apps", <<>>)[n]
             app_name == Get(app, "name", None)
         IN  SetItem(DenormalizeAppsLoop(normalized, n - 1), app_name,
                [ enabled |-> Get(app, "enabled", None),
                  core_notification_types |->
                      Get(Get(normalized, "core_notifications", EmptyDict), app_name, <<>>),
                  notification_types |-> EmptyDict,
                  non_editable |->
                      Get(Get(normalized, "non_editable", EmptyDict), app_name, EmptyDict) ])

\* DenormalizedEntry with the push and email values crossed.
DenormalizedEntryCrossed(preference) ==
    [ web |-> Get(preference, "web", None),
      push |-> Get(preference, "email", None),
      email |-> Get(preference, "push", None),
      info |-> Get(preference, "info", None) ]

\* What the second loop stores for one entry of normalized.preferences.
DenormalizedEntry(preference) ==
    [ web |-> Get(preference, "web", None),
      push |-> Get(preference, "push", None),
      email |-> Get(preference, "email", None),
      info |-> Get(preference, "info", None) ]

\* Second loop, over normalized.preferences[1..n], from the tree `denormalized`;
\* denormalized_preferences[app_name] raises KeyError for an app that is no key.
RECURSIVE DenormalizePrefsLoop(_, _, _)
DenormalizePrefsLoop(denormalized, prefs_list, n) ==
    IF n = 0 THEN Returned(denormalized)
    ELSE LET before == DenormalizePrefsLoop(denormalized, prefs_list, n - 1)
             preference == prefs_list[n]
             pref_name == Get(preference, "name", None)
             app_name == Get(preference, "app_name", None)
         IN  IF before.exception # None THEN before
             ELSE IF ~HasKey(before.returned, app_name) THEN Raised("KeyError")
             ELSE Returned(
                    [before.returned EXCEPT ![app_name]["notification_types"] =
                        SetItem(@, pref_name, DenormalizedEntry(preference))])

denormalize_preferences(normalized) ==
    LET prefs_list == Get(normalized, "preferences", <<>>)
    IN  DenormalizePrefsLoop(
            DenormalizeAppsLoop(normalized, Len(Get(normalized, "apps", <<>>))),
            prefs_list, Len(prefs_list))

\* d[k], which raises KeyError for a missing key.
GetItem(d, k) == IF HasKey(d, k) THEN Returned(d[k]) ELSE Raised("KeyError")

\* UpdateApp taking the stored enabled only when it is truthy.
UpdateAppWhenEnabled(app, old_apps) ==
    LET app_pref == find_app_in_normalized_apps(Get(app, "name", None), old_apps)
    IN  IF app_pref.found /\ Truthy(Get(app_pref.item, "enabled", None))
        THEN Returned(SetItem(app, "enabled", app_pref.item["enabled"]))
        ELSE Returned(app)

\* Body of the first loop of update_preferences: the entry `app` of new_prefs['apps']
\* after the iteration.
UpdateApp(app, old_apps) ==
    LET app_pref == find_app_in_normalized_apps(Get(app, "name", None), old_apps)
    IN  IF app_pref.found
        THEN IF HasKey(app_pref.item, "enabled")
             THEN Returned(SetItem(app, "enabled", app_pref.item["enabled"]))
             ELSE Raised("KeyError")
        ELSE Returned(app)

Channels == <<"web", "email", "push">>

\* CopyChannels reading email for push and push for email.
CopyChannelsCrossed(preference, pref, n) ==
    IF \E channel \in {"web", "email", "push"} : ~HasKey(pref, channel)
    THEN Raised("KeyError")
    ELSE Returned(SetItem(SetItem(SetItem(preference, "web", pref["web"]),
                                  "email", pref["push"]),
                          "push", pref["email"]))

\* for channel in ['web', 'email', 'push']: preference[channel] = pref[channel],
\* over Channels[1..n].
RECURSIVE CopyChannels(_, _, _)
CopyChannels(preference, pref, n) ==
    IF n = 0 THEN Returned(preference)
    ELSE LET before == CopyChannels(preference, pref, n - 1)
         IN  IF before.exception # None THEN before
             ELSE IF ~HasKey(pref, Channels[n]) THEN Raised("KeyError")
             ELSE Returned(SetItem(before.returned, Channels[n], pref[Channels[n]]))

\* UpdatePreference copying the stored info with the channels.
UpdatePreferenceWithInfo(preference, old_prefs) ==
    LET pref == find_pref_in_normalized_prefs(Get(preference, "name", None),
                                              Get(preference, "app_name", None), old_prefs)
        copied == CopyChannels(preference, pref.item, Len(Channels))
    IN  IF pref.found
        THEN IF copied.exception = None /\ HasKey(pref.item, "info")
             THEN Returned(SetItem(copied.returned, "info", pref.item["info"]))
             ELSE copied
        ELSE Returned(preference)

\* UpdatePreference switching off the channels of a type it does not find.
UpdatePreferenceClearingNew(preference, old_prefs) ==
    LET pref == find_pref_in_normalized_prefs(Get(preference, "name", None),
                                              Get(preference, "app_name", None), old_prefs)
    IN  IF pref.found
        THEN CopyChannels(preference, pref.item, Len(Channels))
        ELSE Returned([web |-> False, email |-> False, push |-> False] @@ preference)

\* Body of the second loop: the entry `preference` of new_prefs['preferences']
\* after the iteration.
UpdatePreference(preference, old_prefs) ==
    LET pref == find_pref_in_normalized_prefs(Get(preference, "name", None),
                                              Get(preference, "app_name", None), old_prefs)
    IN  IF pref.found
        THEN CopyChannels(preference, pref.item, Len(Channels))
        ELSE Returned(preference)

\* A loop that updates the entries of a list in place: the list after the loop,
\* or the exception of the first iteration that raises.
LoopOutcome(outcomes) ==
    IF \E i \in 1..Len(outcomes) : outcomes[i].exception # None
    THEN Raised("KeyError")
    ELSE Returned([i \in 1..Len(outcomes) |-> outcomes[i].returned])

\* The two loops of update_preferences: new_prefs after them.
MergeOutcome(old_preferences, new_prefs) ==
    LET apps == LoopOutcome([i \in 1..Len(new_prefs["apps"]) |->
                    UpdateApp(new_prefs["apps"][i], old_preferences["apps"])])
        prefs_list == LoopOutcome([i \in 1..Len(new_prefs["preferences"]) |->
                    UpdatePreference(new_prefs["preferences"][i],
                                     old_preferences["preferences"])])
    IN  IF apps.exception # None THEN apps
        ELSE IF prefs_list.exception # None THEN prefs_list
        ELSE Returned([new_prefs EXCEPT !["apps"] = apps.returned,
                                        !["preferences"] = prefs_list.returned])

\* update_preferences merging the defaults into the stored preferences.
update_preferences_into_old(prefs) ==
    LET old_preferences == normalize_preferences(prefs)
        new_prefs == normalize_preferences(get_notification_app_preferences)
        merged == MergeOutcome(new_prefs, old_preferences)
    IN  IF merged.exception # None THEN merged
        ELSE denormalize_preferences(merged.returned)

\* update_preferences keeping, for an app the stored tree holds, the stored
\* non_editable and core_notification_types.
update_preferences_keeping_locked(prefs) ==
    LET old_preferences == normalize_preferences(prefs)
        new_prefs == normalize_preferences(get_notification_app_preferences)
        merged == MergeOutcome(old_preferences, new_prefs)
    IN  IF merged.exception # None THEN merged
        ELSE denormalize_preferences(
                [merged.returned EXCEPT
                    !["non_editable"] =
                        [app \in DOMAIN @ |-> Get(old_preferences["non_editable"], app, @[app])],
                    !["core_notifications"] =
                        [app \in DOMAIN @ |->
                            Get(old_preferences["core_notifications"], app, @[app])]])

update_preferences(prefs) ==
    LET old_preferences == normalize_preferences(prefs)
        default_prefs == get_notification_app_preferences
        new_prefs == normalize_preferences(default_prefs)
        merged == MergeOutcome(old_preferences, new_prefs)
    IN  IF merged.exception # None THEN merged
        ELSE denormalize_preferences(merged.returned)

----------------------------------------------------------------------------
(* get_notification_content *)

\* template.format(**context) over the pieces template[1..n]: KeyError at the
\* first field that is no key of context.
RECURSIVE FormatLoop(_, _, _)
FormatLoop(template, ctx, n) ==
    IF n = 0 THEN Returned("")
    ELSE LET before == FormatLoop(template, ctx, n - 1)
             piece == template[n]
         IN  IF before.exception # None THEN before
             ELSE IF piece.field_name = None
                  THEN Returned(before.returned \o piece.literal_text)
             ELSE IF ~HasKey(ctx, piece.field_name) THEN Raised("KeyError")
             ELSE Returned(before.returned \o piece.literal_text \o ctx[piece.field_name])

\* format putting nothing for a field that is no key of the context.
RECURSIVE format_lenient(_, _)
format_lenient(template, ctx) ==
    IF template = <<>> THEN Returned("")
    ELSE LET piece == template[Len(template)]
             before == format_lenient(SubSeq(template, 1, Len(template) - 1), ctx)
         IN  Returned(before.returned \o piece.literal_text
                        \o Get(ctx, piece.field_name, ""))

format(template, ctx) == FormatLoop(template, ctx, Len(template))

get_notification_content(type_name, ctx) ==
    \* .get(..., None): the falsy default is written as the empty value of its kind
    LET type == Get(COURSE_NOTIFICATION_TYPES, type_name, EmptyDict)
        template == Get(type, "content_template", <<>>)
    IN  IF type # EmptyDict /\ template # <<>>
        THEN format(template, ctx)
        ELSE Returned("")

----------------------------------------------------------------------------
(* The stored trees and the arguments a run may start with. *)

\* Most notification types a stored app entry holds.
MaxStoredTypes == 2

\* Most keys of a context.
MaxContextKeys == 3

\* Entries of a stored notification_types dict: two complete ones with a label
\* of an older catalog, one saved before the web channel existed, one empty.
StoredTypeEntries ==
    { [web |-> False, email |-> True, push |-> False, info |-> "Old label"],
      [web |-> True, email |-> False, push |-> False, info |-> ""],
      [email |-> True, push |-> True, info |-> "Old label"],
      EmptyDict }

StoredTypeNames == {"core", "new_comment", "new_response", "removed_type"}

StoredNotificationTypes ==
    UNION { [names -> StoredTypeEntries] :
              names \in {n \in SUBSET StoredTypeNames : Cardinality(n) <= MaxStoredTypes} }

\* The entries of app discussion: each of enabled, notification_types and the
\* pair core_notification_types, non_editable present or missing.
StoredDiscussionEntries ==
    { enabled @@ types @@ locked :
        enabled \in {EmptyDict, [enabled |-> True], [enabled |-> False]},
        types \in {EmptyDict} \cup {[notification_types |-> t] : t \in StoredNotificationTypes},
        locked \in { EmptyDict,
                     [ core_notification_types |-> <<"new_comment_on_response", "removed_type">>,
                       non_editable |-> [new_response |-> <<"push">>] ] } }

StoredUpdatesEntries ==
    { [ enabled |-> True,
        core_notification_types |-> <<>>,
        notification_types |->
            [course_update |-> [web |-> True, email |-> False, push |-> True, info |-> ""]],
        non_editable |-> EmptyDict ],
      [ notification_types |->
            [core |-> [web |-> False, email |-> False, push |-> False, info |-> "Old label"]] ] }

StoredLegacyEntries ==
    { [ enabled |-> True,
        core_notification_types |-> <<"old_type">>,
        notification_types |->
            [old_type |-> [web |-> True, email |-> True, push |-> False, info |-> "Old label"]],
        non_editable |-> [old_type |-> <<"web">>] ] }

\* A tree holds each app at most once.
AppChoices(app, entries) == {EmptyDict} \cup {(app :> e) : e \in entries}

StoredTrees ==
    { d @@ u @@ l :
        d \in AppChoices("discussion", StoredDiscussionEntries),
        u \in AppChoices("updates", StoredUpdatesEntries),
        l \in AppChoices("legacy", StoredLegacyEntries) }

ContextValues ==
    [ replier_name |-> "Alice", post_title |-> "Intro", author_name |-> "Bob",
      course_name |-> "Algebra" ]

Contexts ==
    { [k \in keys |-> ContextValues[k]] :
        keys \in {c \in SUBSET DOMAIN ContextValues : Cardinality(c) <= MaxContextKeys} }

----------------------------------------------------------------------------
(* The state machine *)

NoArgument == ""

InitCall ==
    /\ call = ""
    /\ normalized_preferences = normalize_preferences(EmptyDict)
    /\ result = Returned(EmptyDict)
    /\ notification_type = NoArgument
    /\ context = EmptyDict

InitCatalog ==
    \E catalog \in Catalogs :
        /\ COURSE_NOTIFICATION_TYPES = catalog[1]
        /\ COURSE_NOTIFICATION_APPS = catalog[2]

Init ==
    /\ InitCatalog
    /\ preferences \in StoredTrees
    /\ InitCall

InitContent ==
    /\ InitCatalog
    /\ preferences = EmptyDict
    /\ InitCall

NormalizePreferences ==
    /\ normalized_preferences' = normalize_preferences(preferences)
    /\ result' = Returned(normalized_preferences')
    /\ call' = "normalize_preferences"
    /\ UNCHANGED <<COURSE_NOTIFICATION_TYPES, COURSE_NOTIFICATION_APPS, preferences,
                   notification_type, context>>

DenormalizePreferences ==
    /\ result' = denormalize_preferences(normalized_preferences)
    /\ call' = "denormalize_preferences"
    /\ UNCHANGED <<COURSE_NOTIFICATION_TYPES, COURSE_NOTIFICATION_APPS, preferences,
                   normalized_preferences, notification_type, context>>

\* UpdatePreferences storing what it returns in the tree it was given.
UpdatePreferencesInPlace ==
    /\ result' = update_preferences(preferences)
    /\ call' = "update_preferences"
    /\ preferences' = IF result'.exception = None THEN result'.returned ELSE preferences
    /\ UNCHANGED <<COURSE_NOTIFICATION_TYPES, COURSE_NOTIFICATION_APPS,
                   normalized_preferences, notification_type, context>>

UpdatePreferences ==
    /\ result' = update_preferences(preferences)
    /\ call' = "update_preferences"
    /\ UNCHANGED <<COURSE_NOTIFICATION_TYPES, COURSE_NOTIFICATION_APPS, preferences,
                   normalized_preferences, notification_type, context>>

GetNotificationContent ==
    \E type_name \in (DOMAIN COURSE_NOTIFICATION_TYPES) \cup {"unknown_type"}, ctx \in Contexts :
        /\ notification_type' = type_name
        /\ context' = ctx
        /\ result' = get_notification_content(type_name, ctx)
        /\ call' = "get_notification_content"
        /\ UNCHANGED <<COURSE_NOTIFICATION_TYPES, COURSE_NOTIFICATION_APPS, preferences,
                       normalized_preferences>>

Next == NormalizePreferences \/ DenormalizePreferences \/ UpdatePreferences

NextContent == GetNotificationContent

Spec == Init /\ [][Next]_vars

SpecContent == InitContent /\ [][NextContent]_vars

----------------------------------------------------------------------------
(* What the claims speak of *)

\* update_preferences ran last and returned a tree.
Updated == call = "update_preferences" /\ result.exception = None

DefaultTree == get_notification_app_preferences

StoredTypes(app) ==
    IF HasKey(preferences, app)
    THEN Get(preferences[app], "notification_types", EmptyDict)
    ELSE EmptyDict

\* The (app, name) pairs the default tree and the stored tree both hold.
InBoth ==
    UNION { { <<app, name>> : name \in (DOMAIN DefaultTree[app]["notification_types"])
                                         \cap (DOMAIN StoredTypes(app)) } :
            app \in DOMAIN DefaultTree }

\* The catalog's types of an app that are not core.
NonCoreTypes(app) ==
    { COURSE_NOTIFICATION_TYPES[k] : k \in
        { key \in DOMAIN COURSE_NOTIFICATION_TYPES :
            /\ Get(COURSE_NOTIFICATION_TYPES[key], "notification_app", None) = app
            /\ ~Truthy(Get(COURSE_NOTIFICATION_TYPES[key], "is_core", None)) } }

\* The channel values and the label the catalog gives a type of an app, a
\* missing flag read as False and a missing label as the empty string.
CatalogDefault(app, name) ==
    IF name = "core"
    THEN LET attrs == COURSE_NOTIFICATION_APPS[app]
         IN  [ web |-> Get(attrs, "core_web", False), email |-> Get(attrs, "core_email", False),
               push |-> Get(attrs, "core_push", False), info |-> Get(attrs, "core_info", "") ]
    ELSE LET t == CHOOSE t \in NonCoreTypes(app) : Get(t, "name", None) = name
         IN  [ web |-> Get(t, "web", False), email |-> Get(t, "email", False),
               push |-> Get(t, "push", False), info |-> Get(t, "info", "") ]

AppKeys == {"enabled", "core_notification_types", "notification_types", "non_editable"}
TypeKeys == {"web", "push", "email", "info"}

WellFormed(tree) ==
    \A app \in DOMAIN tree :
        /\ DOMAIN tree[app] = AppKeys
        /\ \A name \in DOMAIN tree[app]["notification_types"] :
               DOMAIN tree[app]["notification_types"][name] = TypeKeys

\* C1: denormalize_preferences of normalize_preferences of a well-formed tree is
\* that tree: the same apps, the same types in each, the same value in every field.
C1_RoundTrip ==
    ( /\ call = "denormalize_preferences"
      /\ normalized_preferences = normalize_preferences(preferences)
      /\ WellFormed(preferences) )
    => result = Returned(preferences)

C1_Witness ==
    /\ call = "denormalize_preferences"
    /\ normalized_preferences = normalize_preferences(preferences)
    /\ WellFormed(preferences)
    /\ Cardinality(DOMAIN preferences) = 3
    /\ Cardinality(DOMAIN preferences["discussion"]["notification_types"]) = 2
    /\ result = Returned(preferences)

\* C2: with the catalog as it is, update_preferences of a tree update_preferences
\* returned returns that same tree.
C2_Idempotent ==
    Updated => update_preferences(result.returned) = result

C2_Witness ==
    /\ Updated
    /\ result.returned # preferences
    /\ \E p \in InBoth :
            LET out == result.returned[p[1]]["notification_types"][p[2]]
            IN  /\ out["web"] # CatalogDefault(p[1], p[2])["web"]
                /\ out["email"] # out["push"]
    /\ update_preferences(result.returned) = result

\* C3: a type the default tree and the stored tree both hold comes out of
\* update_preferences with the stored web, email and push and with the catalog's
\* info, not the stored one.
C3_ChannelsKeptInfoFromCatalog ==
    Updated =>
        \A p \in InBoth :
            LET stored == StoredTypes(p[1])[p[2]]
                out == result.returned[p[1]]["notification_types"][p[2]]
            IN  /\ \A channel \in {"web", "email", "push"} :
                        GetItem(stored, channel) = Returned(out[channel])
                /\ out["info"] = CatalogDefault(p[1], p[2])["info"]

C3_Witness ==
    /\ Updated
    /\ \E p \in InBoth :
            LET stored == StoredTypes(p[1])[p[2]]
                out == result.returned[p[1]]["notification_types"][p[2]]
            IN  /\ out["web"] = stored["web"]
                /\ out["web"] # CatalogDefault(p[1], p[2])["web"]
                /\ out["email"] # out["push"]
                /\ HasKey(stored, "info")
                /\ stored["info"] # out["info"]

\* C4: an app the catalog and the stored tree both hold comes out of
\* update_preferences with the stored enabled (None when the stored entry has
\* none), whatever the catalog's enabled is.
C4_EnabledKept ==
    Updated =>
        \A app \in (DOMAIN COURSE_NOTIFICATION_APPS) \cap (DOMAIN preferences) :
            result.returned[app]["enabled"] = Get(preferences[app], "enabled", None)

C4_Witness ==
    /\ Updated
    /\ \E app \in (DOMAIN COURSE_NOTIFICATION_APPS) \cap (DOMAIN preferences) :
            /\ HasKey(preferences[app], "enabled")
            /\ result.returned[app]["enabled"] = preferences[app]["enabled"]
            /\ preferences[app]["enabled"] # Get(COURSE_NOTIFICATION_APPS[app], "enabled", False)

\* C5: a type of the default tree that the stored tree does not hold comes out of
\* update_preferences with the catalog's web, email, push and info, and an app the
\* stored tree does not hold with the catalog's enabled.
C5_NewTakesDefault ==
    Updated =>
        \A app \in DOMAIN DefaultTree :
            /\ ~HasKey(preferences, app) =>
                   result.returned[app]["enabled"] =
                       Get(COURSE_NOTIFICATION_APPS[app], "enabled", False)
            /\ \A name \in DOMAIN DefaultTree[app]["notification_types"] :
                   ~HasKey(StoredTypes(app), name) =>
                       result.returned[app]["notification_types"][name] =
                           CatalogDefault(app, name)

C5_Witness ==
    /\ Updated
    /\ ~HasKey(preferences, "updates") /\ HasKey(result.returned, "updates")
    /\ \E p \in InBoth : p[1] = "discussion"
    /\ \E name \in DOMAIN DefaultTree["discussion"]["notification_types"] :
            /\ ~HasKey(StoredTypes("discussion"), name)
            /\ result.returned["discussion"]["notification_types"][name] =
                   CatalogDefault("discussion", name)

\* C6: update_preferences returns the catalog's apps and no other, each with its
\* non-core catalog types and 'core' and no other: what the stored tree holds and
\* the catalog does not is gone, an app that was enabled included.
C6_CatalogKeysOnly ==
    Updated =>
        /\ DOMAIN result.returned = DOMAIN COURSE_NOTIFICATION_APPS
        /\ \A app \in DOMAIN result.returned :
               DOMAIN result.returned[app]["notification_types"] =
                   {Get(t, "name", None) : t \in NonCoreTypes(app)} \cup {"core"}

C6_Witness ==
    /\ Updated
    /\ HasKey(preferences, "legacy")
    /\ preferences["legacy"]["enabled"] = True
    /\ ~HasKey(result.returned, "legacy")
    /\ HasKey(StoredTypes("discussion"), "removed_type")
    /\ ~HasKey(result.returned["discussion"]["notification_types"], "removed_type")

\* C7: every app update_preferences returns has the core_notification_types and
\* the non_editable of the default tree built from the catalog, whatever the stored
\* tree holds for them.
C7_CoreAndLockedFromCatalog ==
    Updated =>
        \A app \in DOMAIN result.returned :
            /\ result.returned[app]["core_notification_types"] =
                   DefaultTree[app]["core_notification_types"]
            /\ result.returned[app]["non_editable"] = DefaultTree[app]["non_editable"]

C7_Witness ==
    /\ Updated
    /\ HasKey(preferences, "discussion")
    /\ HasKey(preferences["discussion"], "non_editable")
    /\ preferences["discussion"]["non_editable"] # result.returned["discussion"]["non_editable"]
    /\ preferences["discussion"]["core_notification_types"] #
           result.returned["discussion"]["core_notification_types"]
    /\ result.returned["discussion"]["non_editable"] # EmptyDict

\* C8: normalize_preferences and update_preferences never raise, whatever field a
\* stored app entry or type entry lacks.
C8_NeverRaises ==
    call \in {"normalize_preferences", "update_preferences"} => result.exception = None

Fields(template) ==
    {template[i].field_name : i \in 1..Len(template)} \ {None}

HasTemplate(type_name) ==
    /\ HasKey(COURSE_NOTIFICATION_TYPES, type_name)
    /\ HasKey(COURSE_NOTIFICATION_TYPES[type_name], "content_template")
    /\ COURSE_NOTIFICATION_TYPES[type_name]["content_template"] # <<>>

\* C10: get_notification_content returns '' for a type that is not in the catalog
\* or has no template, whatever the context; for a type with a template it raises
\* KeyError exactly when the template names a field that is no key of the context.
C10_ContentFailsOnMissingKeyOnly ==
    call = "get_notification_content" =>
        IF HasTemplate(notification_type)
        THEN /\ result.exception \in {None, "KeyError"}
             /\ result.exception = "KeyError" <=>
                    ~(Fields(COURSE_NOTIFICATION_TYPES[notification_type]["content_template"])
                          \subseteq DOMAIN context)
        ELSE result = Returned("")

C10_Witness ==
    /\ call = "get_notification_content"
    /\ HasTemplate(notification_type)
    /\ result.exception = "KeyError"
    /\ HasKey(context, "course_name")
    /\ Cardinality(DOMAIN context) = 3

====
